---- MODULE Spec2Model ----
(***************************************************************************)
(* Model of src/src/serde.rs of mpt-circuit: the decoder of newline        *)
(* delimited row records (RowDe::from_lines, Row::try_from) and the        *)
(* five-part verifier of a row trace (impl Verify for Vec<Row>).           *)
(*                                                                         *)
(* verify is modelled one loop iteration per step, so that the running     *)
(* verdict, the diagnostics emitted so far and an abort in the middle of   *)
(* a loop are all visible as states.                                       *)
(***************************************************************************)
EXTENDS Integers, Sequences, FiniteSets, TLC

VARIABLES
    lines,      \* the text handed to the decoder, one element per line
    des,        \* Vec<RowDe> being collected by from_lines
    conv,       \* Vec<Row> being collected from Row::try_from
    dstatus,    \* "skipped" | "running" | "ok" | "err" : the decoder's result
    err,        \* the error the decoder returned (kind, line, field)
    rows,       \* self: the Vec<Row> verify is called on
    pc,         \* position in the program
    idx,        \* loop index, 0-based as in the source
    verified,   \* the local `verified` of verify
    log,        \* the error! diagnostics emitted so far, in order
    ret         \* "pending" | "true" | "false" | "panic" : outcome of verify

vars == <<lines, des, conv, dstatus, err, rows, pc, idx, verified, log, ret>>

(***************************************************************************)
(* Bounds and scaled widths                                                *)
(***************************************************************************)
\* longest row sequence / text (in lines) explored
MaxLen == 2
\* longest trace explored when only depths and operation boundaries vary
MaxDepthLen == 3
\* width of usize in bits (64 on the targets of the crate)
UsizeBits == 2
\* bytes in a Hash ([u8; 32] in the source)
HashLen == 2

UsizeMax == 2 ^ UsizeBits - 1

(***************************************************************************)
(* Data model: HashType, Hash, Row                                         *)
(***************************************************************************)
HashType == {"Empty", "Middle", "LeafExt", "LeafExtFinal", "Leaf"}

\* Hash::zero()
HashZero == [i \in 1..HashLen |-> 0]

\* a Hash whose byte 0 is b and whose other bytes are 0
HashB0(b) == [i \in 1..HashLen |-> IF i = 1 THEN b ELSE 0]

RECURSIVE LeSum(_, _)
LeSum(bytes, n) ==
    IF n = 0 THEN 0 ELSE bytes[n] * 256 ^ (n - 1) + LeSum(bytes, n - 1)

RECURSIVE BeSum(_, _)
BeSum(bytes, n) ==
    IF n = 0 THEN 0 ELSE bytes[n] + 256 * BeSum(bytes, n - 1)

\* a conversion that reads byte 0 as the most significant byte
BigUintFromHashBe(hash) == BeSum(hash, Len(hash))

\* impl From<Hash> for BigUint: BigUint::from_bytes_le(&hash.0)
BigUintFromHash(hash) == LeSum(hash, Len(hash))

VALID_STATE == {"Empty", "Leaf", "Middle", "LeafExt", "LeafExtFinal"}

\* the chain table with Leaf -> Middle let in
VALID_TRANSACTION_LeafMiddle ==
    { <<"Middle", "Middle">>, <<"Middle", "Empty">>, <<"Middle", "Leaf">>,
      <<"Middle", "LeafExt">>, <<"Middle", "LeafExtFinal">>,
      <<"LeafExt", "LeafExt">>, <<"LeafExt", "LeafExtFinal">>,
      <<"LeafExtFinal", "Empty">>, <<"LeafExtFinal", "Leaf">>,
      <<"Leaf", "Middle">> }

\* the chain table with a walk continuing below Empty and Leaf nodes
VALID_TRANSACTION_BelowLeaf ==
    { <<"Middle", "Middle">>, <<"Middle", "Empty">>, <<"Middle", "Leaf">>,
      <<"Middle", "LeafExt">>, <<"Middle", "LeafExtFinal">>,
      <<"LeafExt", "LeafExt">>, <<"LeafExt", "LeafExtFinal">>,
      <<"LeafExtFinal", "Empty">>, <<"LeafExtFinal", "Leaf">>,
      <<"Empty", "Leaf">>, <<"Leaf", "Leaf">> }

VALID_TRANSACTION ==
    { <<"Middle", "Middle">>, <<"Middle", "Empty">>, <<"Middle", "Leaf">>,
      <<"Middle", "LeafExt">>, <<"Middle", "LeafExtFinal">>,
      <<"LeafExt", "LeafExt">>, <<"LeafExt", "LeafExtFinal">>,
      <<"LeafExtFinal", "Empty">>, <<"LeafExtFinal", "Leaf">> }

\* the within-row table with Empty -> Empty let in
VALID_TRANSITIONS_Wide ==
    { <<"Empty", "Leaf">>, <<"Leaf", "Empty">>, <<"Leaf", "Leaf">>,
      <<"Middle", "LeafExtFinal">>, <<"LeafExtFinal", "Middle">>,
      <<"Middle", "LeafExt">>, <<"LeafExt", "Middle">>,
      <<"Middle", "Middle">>, <<"Empty", "Empty">> }

VALID_TRANSITIONS ==
    { <<"Empty", "Leaf">>, <<"Leaf", "Empty">>, <<"Leaf", "Leaf">>,
      <<"Middle", "LeafExtFinal">>, <<"LeafExtFinal", "Middle">>,
      <<"Middle", "LeafExt">>, <<"LeafExt", "Middle">>,
      <<"Middle", "Middle">> }

\* self[i] with the 0-based index of the source
At(self, i) == self[i + 1]

\* one error! call: the part of verify that emitted it, the row, the check
Diag(part, i, check) == [part |-> part, idx |-> i, check |-> check]

\* the diagnostics of one `if cond { error!(..); verified = false }`
Check(cond, part, i, check) == IF cond THEN <<Diag(part, i, check)>> ELSE <<>>

(***************************************************************************)
(* verify: the checks of one loop iteration, as the diagnostics they emit  *)
(***************************************************************************)
\* `self[idx - 1]` on a row that is not is_first: at idx = 0 the subtraction
\* underflows (debug build) or the wrapped index is out of bounds (release)
NoPrev(self, i) == ~At(self, i).is_first /\ i = 0

\* part 1 comparing only the old side
Part1Diags_OldOnly(self, i) ==
    LET row == At(self, i) IN
    IF row.is_first THEN <<>>
    ELSE Check(At(self, i - 1).old_value # row.old_hash, "part1", i, "adj_old")

\* part 1: check hash calculations of adjacent rows
Part1Diags(self, i) ==
    LET row == At(self, i) IN
    IF row.is_first THEN <<>>
    ELSE Check(At(self, i - 1).old_value # row.old_hash, "part1", i, "adj_old")
         \o Check(At(self, i - 1).new_value # row.new_hash, "part1", i, "adj_new")

\* part 2.1: check HashType of adjacent rows
Part2_1Diags(self, i) ==
    LET row == At(self, i) IN
    IF row.is_first
    THEN Check(row.old_hash_type \notin VALID_STATE, "part2_1", i, "state_old")
         \o Check(row.new_hash_type \notin VALID_STATE, "part2_1", i, "state_new")
    ELSE Check(<<At(self, i - 1).old_hash_type, row.old_hash_type>>
                   \notin VALID_TRANSACTION, "part2_1", i, "chain_old")
         \o Check(<<At(self, i - 1).new_hash_type, row.new_hash_type>>
                   \notin VALID_TRANSACTION, "part2_1", i, "chain_new")

\* part 2.2: check HashType between old and new
Part2_2Diags(self, i) ==
    LET row == At(self, i) IN
    Check(<<row.old_hash_type, row.new_hash_type>> \notin VALID_TRANSITIONS,
          "part2_2", i, "transition")

\* the match of part 3 with the LeafExtFinal arm comparing the value
ShapeMismatch_Value(type, hash, value, sib) ==
    CASE type = "Empty" -> hash # HashZero
      [] type = "Middle" -> FALSE
      [] type = "LeafExt" -> value # hash
      [] type = "LeafExtFinal" -> value # hash
      [] type = "Leaf" -> FALSE

\* one `match row.*_hash_type` of part 3
ShapeMismatch(type, hash, value, sib) ==
    CASE type = "Empty" -> hash # HashZero
      [] type = "Middle" -> FALSE
      [] type = "LeafExt" -> value # hash
      [] type = "LeafExtFinal" -> sib # hash
      [] type = "Leaf" -> FALSE

\* part 3: check hash calculation
Part3Diags(self, i) ==
    LET row == At(self, i) IN
    Check(ShapeMismatch(row.old_hash_type, row.old_hash, row.old_value, row.sib),
          "part3", i, "shape_old")
    \o Check(ShapeMismatch(row.new_hash_type, row.new_hash, row.new_value, row.sib),
          "part3", i, "shape_new")

\* part 4, first two ifs: path must be 0/1 for mid/leafext/leafextfinal
PathDiags(self, i) ==
    LET row == At(self, i)
        inner == {"Middle", "LeafExt", "LeafExtFinal"}
        bad == row.path # 0 /\ row.path # 1
    IN  Check(row.old_hash_type \in inner /\ bad, "part4", i, "path_old")
        \o Check(row.new_hash_type \in inner /\ bad, "part4", i, "path_new")

\* `self[idx - 1].depth + 1` overflows usize
DepthOverflow(self, i) ==
    ~At(self, i).is_first /\ i > 0 /\ At(self, i - 1).depth = UsizeMax

\* the expected depth taken to be the previous row's depth itself
ExpectedDepth_Same(prev) == prev

\* let expected = self[idx - 1].depth + 1 (wrapping: the release build)
ExpectedDepth(prev) == (prev + 1) % (UsizeMax + 1)

\* part 4, depth
DepthDiags(self, i) ==
    LET row == At(self, i) IN
    IF row.is_first
    THEN Check(row.depth # 0, "part4", i, "depth_first")
    ELSE Check(row.depth # ExpectedDepth(At(self, i - 1).depth), "part4", i, "depth")

\* the row ends an operation
EndsOperation(self, i) ==
    IF i = Len(self) - 1 THEN TRUE ELSE At(self, i + 1).is_first

\* part 4, key: the last row of an operation has path_acc == key
KeyDiags(self, i) ==
    LET row == At(self, i) IN
    IF EndsOperation(self, i)
    THEN Check(BigUintFromHash(row.key) # row.path_acc, "part4", i, "key")
    ELSE <<>>

Part4Diags(self, i) == PathDiags(self, i) \o DepthDiags(self, i) \o KeyDiags(self, i)

\* a verdict that the latest iteration alone decides
Accumulate_Overwrite(v, diags) == diags = <<>>

\* `verified = false` in every failing check; nothing sets it to true
Accumulate(v, diags) == v /\ diags = <<>>

\* the step after the body of a loop: next row, or the next part
NextPc(part, after) == IF idx + 1 = Len(rows) THEN after ELSE part
NextIdx == IF idx + 1 = Len(rows) THEN 0 ELSE idx + 1

Decoder == <<lines, des, conv, dstatus, err>>

\* fn verify: is_empty() returns true; otherwise let mut verified = true
VerifyEnter ==
    /\ pc = "verify"
    /\ idx' = 0
    /\ verified' = TRUE
    /\ IF rows = <<>>
       THEN pc' = "done" /\ ret' = "true"
       ELSE pc' = "part1" /\ ret' = ret
    /\ UNCHANGED <<rows, log, Decoder>>

\* one iteration of a loop that reads self[idx - 1]
Abort == pc' = "panic" /\ ret' = "panic" /\ UNCHANGED <<idx, verified>>

Iterate(part, after, diags) ==
    /\ log' = log \o diags
    /\ verified' = Accumulate(verified, diags)
    /\ pc' = NextPc(part, after)
    /\ idx' = NextIdx
    /\ ret' = ret

Part1Step ==
    /\ pc = "part1"
    /\ IF NoPrev(rows, idx)
       THEN Abort /\ log' = log
       ELSE Iterate("part1", "part2_1", Part1Diags(rows, idx))
    /\ UNCHANGED <<rows, Decoder>>

Part2_1Step ==
    /\ pc = "part2_1"
    /\ IF NoPrev(rows, idx)
       THEN Abort /\ log' = log
       ELSE Iterate("part2_1", "part2_2", Part2_1Diags(rows, idx))
    /\ UNCHANGED <<rows, Decoder>>

Part2_2Step ==
    /\ pc = "part2_2"
    /\ Iterate("part2_2", "part3", Part2_2Diags(rows, idx))
    /\ UNCHANGED <<rows, Decoder>>

Part3Step ==
    /\ pc = "part3"
    /\ Iterate("part3", "part4", Part3Diags(rows, idx))
    /\ UNCHANGED <<rows, Decoder>>

\* an iteration of part 4 whose arithmetic stays in range
Part4Step ==
    /\ pc = "part4"
    /\ ~DepthOverflow(rows, idx)
    /\ IF NoPrev(rows, idx)
       THEN Abort /\ log' = log \o PathDiags(rows, idx)
       ELSE Iterate("part4", "return", Part4Diags(rows, idx))
    /\ UNCHANGED <<rows, Decoder>>

\* an iteration of part 4 in which `depth + 1` overflows: the build with
\* overflow checks aborts, the build without wraps to 0 and carries on
Part4Overflow ==
    /\ pc = "part4"
    /\ DepthOverflow(rows, idx)
    /\ \E checked \in BOOLEAN :
          IF checked
          THEN Abort /\ log' = log \o PathDiags(rows, idx)
          ELSE Iterate("part4", "return", Part4Diags(rows, idx))
    /\ UNCHANGED <<rows, Decoder>>

\* the tail expression `verified`
VerifyReturn ==
    /\ pc = "return"
    /\ pc' = "done"
    /\ ret' = IF verified THEN "true" ELSE "false"
    /\ UNCHANGED <<rows, idx, verified, log, Decoder>>

(***************************************************************************)
(* Decoder: RowDe::from_lines, then Row::try_from on every record          *)
(***************************************************************************)
\* a string is a sequence of one-character strings
HexDigits == <<"0", "1", "2", "3", "4", "5", "6", "7", "8", "9",
               "a", "b", "c", "d", "e", "f">>
HexUpper == <<"0", "1", "2", "3", "4", "5", "6", "7", "8", "9",
              "A", "B", "C", "D", "E", "F">>

\* the value of a hexadecimal digit of either case, -1 for any other character
HexVal(c) ==
    IF \E i \in 1..16 : HexDigits[i] = c
    THEN (CHOOSE i \in 1..16 : HexDigits[i] = c) - 1
    ELSE IF \E i \in 1..16 : HexUpper[i] = c
         THEN (CHOOSE i \in 1..16 : HexUpper[i] = c) - 1
         ELSE -1

\* a hex decoder that checks the length only and reads a bad digit as 0
HashTryFrom_Lenient(value) ==
    IF Len(value) # 2 * HashLen
    THEN [ok |-> FALSE, hash |-> HashZero]
    ELSE [ok |-> TRUE,
          hash |-> [i \in 1..HashLen |->
                      LET hi == HexVal(value[2 * i - 1])
                          lo == HexVal(value[2 * i])
                      IN  16 * (IF hi < 0 THEN 0 ELSE hi) + (IF lo < 0 THEN 0 ELSE lo)]]

\* impl TryFrom<&str> for Hash: hex::decode_to_slice(value, &mut hash.0)
HashTryFrom(value) ==
    IF \/ Len(value) # 2 * HashLen
       \/ \E i \in 1..Len(value) : HexVal(value[i]) < 0
    THEN [ok |-> FALSE, hash |-> HashZero]
    ELSE [ok |-> TRUE,
          hash |-> [i \in 1..HashLen |->
                      16 * HexVal(value[2 * i - 1]) + HexVal(value[2 * i])]]

RECURSIVE BinValue(_, _)
BinValue(s, n) ==
    IF n = 0 THEN 0 ELSE (IF s[n] = "1" THEN 1 ELSE 0) + 2 * BinValue(s, n - 1)

\* BigUint::parse_bytes(s.as_bytes(), 2): None on an empty string or a bad digit
ParseBytes2(s) ==
    IF s = <<>> \/ \E i \in 1..Len(s) : s[i] \notin {"0", "1"}
    THEN [ok |-> FALSE, value |-> 0]
    ELSE [ok |-> TRUE, value |-> BinValue(s, Len(s))]

\* the fallible fields of try_from, in the order the struct literal evaluates them
FieldOrder == <<"sib", "path", "path_acc", "old_hash", "old_value",
                "new_hash", "new_value", "key", "new_root">>
BinaryFields == {"path", "path_acc"}

FieldOk(r, f) == IF f \in BinaryFields THEN ParseBytes2(r[f]).ok ELSE HashTryFrom(r[f]).ok

NoRow ==
    [is_first |-> FALSE, sib |-> HashZero, depth |-> 0, path |-> 0, path_acc |-> 0,
     old_hash_type |-> "Empty", old_hash |-> HashZero, old_value |-> HashZero,
     new_hash_type |-> "Empty", new_hash |-> HashZero, new_value |-> HashZero,
     key |-> HashZero, new_root |-> HashZero]

\* impl TryFrom<&RowDe> for Row: every `?` returns the error of its field
TryFrom(r) ==
    LET bad == {i \in 1..Len(FieldOrder) : ~FieldOk(r, FieldOrder[i])} IN
    IF bad # {}
    THEN LET i == CHOOSE j \in bad : \A k \in bad : j <= k IN
         [ok |-> FALSE, row |-> NoRow, field |-> FieldOrder[i],
          kind |-> IF FieldOrder[i] \in BinaryFields THEN "BigInt" ELSE "Hex"]
    ELSE [ok |-> TRUE, field |-> "none", kind |-> "None",
          row |-> [is_first |-> r.is_first,
                   sib |-> HashTryFrom(r.sib).hash,
                   depth |-> r.depth,
                   path |-> ParseBytes2(r.path).value,
                   path_acc |-> ParseBytes2(r.path_acc).value,
                   old_hash_type |-> r.old_hash_type,
                   old_hash |-> HashTryFrom(r.old_hash).hash,
                   old_value |-> HashTryFrom(r.old_value).hash,
                   new_hash_type |-> r.new_hash_type,
                   new_hash |-> HashTryFrom(r.new_hash).hash,
                   new_value |-> HashTryFrom(r.new_value).hash,
                   key |-> HashTryFrom(r.key).hash,
                   new_root |-> HashTryFrom(r.new_root).hash]]

NoErr == [kind |-> "None", line |-> 0, field |-> "none"]

\* from_lines: one serde_json::from_str of the map; collect stops at the first Err
FromLinesStep ==
    /\ pc = "from_lines"
    /\ LET line == At(lines, idx) IN
       IF ~line.json
       THEN /\ pc' = "decode_err"
            /\ dstatus' = "err"
            /\ err' = [kind |-> "Json", line |-> idx + 1, field |-> "none"]
            /\ des' = <<>>
            /\ idx' = idx
       ELSE /\ des' = Append(des, line.de)
            /\ pc' = IF idx + 1 = Len(lines) THEN "try_from" ELSE "from_lines"
            /\ idx' = IF idx + 1 = Len(lines) THEN 0 ELSE idx + 1
            /\ UNCHANGED <<dstatus, err>>
    /\ UNCHANGED <<lines, conv, rows, verified, log, ret>>

\* .iter().map(Row::try_from).collect(): stops at the first Err and returns it;
\* on success the rows are handed to verify
TryFromStep ==
    /\ pc = "try_from"
    /\ LET r == TryFrom(At(des, idx)) IN
       IF ~r.ok
       THEN /\ pc' = "decode_err"
            /\ dstatus' = "err"
            /\ err' = [kind |-> r.kind, line |-> idx + 1, field |-> r.field]
            /\ conv' = <<>>
            /\ idx' = idx
            /\ rows' = rows
       ELSE /\ conv' = Append(conv, r.row)
            /\ err' = err
            /\ IF idx + 1 = Len(des)
               THEN pc' = "verify" /\ idx' = 0 /\ dstatus' = "ok" /\ rows' = conv'
               ELSE pc' = "try_from" /\ idx' = idx + 1 /\ dstatus' = dstatus
                    /\ rows' = rows
    /\ UNCHANGED <<lines, des, verified, log, ret>>

(***************************************************************************)
(* Inputs                                                                  *)
(***************************************************************************)
MkRow(first, depth, path, path_acc, ot, oh, ov, nt, nh, nv, sib, key) ==
    [is_first |-> first, sib |-> sib, depth |-> depth, path |-> path,
     path_acc |-> path_acc, old_hash_type |-> ot, old_hash |-> oh, old_value |-> ov,
     new_hash_type |-> nt, new_hash |-> nh, new_value |-> nv, key |-> key,
     new_root |-> HashZero]

\* the depth the bookkeeping of part 4 expects at position i (1-based), given
\* which rows open an operation
RECURSIVE DepthAt(_, _)
DepthAt(f, i) ==
    IF f[i] \/ i = 1 THEN 0 ELSE (DepthAt(f, i - 1) + 1) % (UsizeMax + 1)

\* a one-row operation inserting a leaf into an empty trie
LeafInsert ==
    MkRow(TRUE, 0, 0, 0, "Empty", HashZero, HashZero, "Leaf", HashZero, HashZero,
          HashZero, HashZero)

HashPool == {HashZero, HashB0(1)}
KeyPool == [1..HashLen -> {0, 1}]
PathAccPool == {LeSum(k, HashLen) : k \in KeyPool}
PathPool == {0, 1, 2}

\* a trace whose node types and operation boundaries vary
TypesTrace(n, f, ot, nt) ==
    [i \in 1..n |-> MkRow(f[i], DepthAt(f, i), 0, 0, ot[i], HashZero, HashZero,
                          nt[i], HashZero, HashZero, HashZero, HashZero)]

\* a trace of Middle nodes whose hashes and values vary
ChainTrace(n, f, oh, ov, nh, nv) ==
    [i \in 1..n |-> MkRow(f[i], DepthAt(f, i), 0, 0, "Middle", oh[i], ov[i],
                          "Middle", nh[i], nv[i], HashZero, HashZero)]

\* a trace of leaf inserts with row k varied in its types, hashes and path bit
RowTrace(n, k, row) == [i \in 1..n |-> IF i = k THEN row ELSE LeafInsert]

\* a trace of Middle nodes whose depths and operation boundaries vary
DepthTrace(n, f, d) ==
    [i \in 1..n |-> MkRow(f[i], d[i], 0, 0, "Middle", HashZero, HashZero,
                          "Middle", HashZero, HashZero, HashZero, HashZero)]

\* a trace of Middle nodes whose keys and accumulated paths vary
KeyTrace(n, f, key, acc) ==
    [i \in 1..n |-> MkRow(f[i], DepthAt(f, i), 0, acc[i], "Middle", HashZero,
                          HashZero, "Middle", HashZero, HashZero, HashZero, key[i])]

\* the row sequences a caller hands to verify
IsTrace(t) ==
    \/ \E n \in 0..MaxLen :
          \/ \E f \in [1..n -> BOOLEAN], ot \in [1..n -> HashType],
                nt \in [1..n -> HashType] :
                t = TypesTrace(n, f, ot, nt)
          \/ \E f \in [1..n -> BOOLEAN], oh \in [1..n -> HashPool],
                ov \in [1..n -> HashPool], nh \in [1..n -> HashPool],
                nv \in [1..n -> HashPool] :
                t = ChainTrace(n, f, oh, ov, nh, nv)
          \/ \E k \in 1..n, first \in BOOLEAN, path \in PathPool,
                ot \in HashType, nt \in HashType, sib \in HashPool,
                oh \in HashPool, ov \in HashPool, nh \in HashPool, nv \in HashPool :
                t = RowTrace(n, k, MkRow(first, IF first \/ k = 1 THEN 0 ELSE 1,
                                         path, 0, ot, oh, ov, nt, nh, nv, sib,
                                         HashZero))
          \/ \E f \in [1..n -> BOOLEAN], key \in [1..n -> KeyPool],
                acc \in [1..n -> PathAccPool] :
                t = KeyTrace(n, f, key, acc)
    \/ \E n \in 0..MaxDepthLen :
          \E f \in [1..n -> BOOLEAN], d \in [1..n -> 0..UsizeMax] :
             t = DepthTrace(n, f, d)

\* a hex string of the width of a Hash: the given digits, then zeros
Pad(s) == s \o [i \in 1..(2 * HashLen - Len(s)) |-> "0"]

\* the record of a well-formed line: a leaf insert for key 1
GoodDe ==
    [is_first |-> TRUE, sib |-> Pad(<<>>), depth |-> 0, path |-> <<"0">>,
     path_acc |-> <<"1">>, old_hash_type |-> "Empty", old_hash |-> Pad(<<>>),
     old_value |-> Pad(<<>>), new_hash_type |-> "Leaf", new_hash |-> Pad(<<"A", "b">>),
     new_value |-> Pad(<<"c", "3">>), key |-> Pad(<<"0", "1">>), new_root |-> Pad(<<"f", "F">>)]

\* a second well-formed line, continuing an operation one level down
DeepDe ==
    [GoodDe EXCEPT !.is_first = FALSE, !.depth = 1, !.path_acc = <<"1", "0">>,
                   !.key = Pad(<<"0", "2">>)]

\* the lines of the texts explored: well-formed ones, a line serde_json rejects,
\* and lines whose hex or binary fields are malformed
LinePool ==
    { [json |-> TRUE, de |-> GoodDe],
      [json |-> TRUE, de |-> DeepDe],
      [json |-> FALSE, de |-> GoodDe],
      [json |-> TRUE, de |-> [GoodDe EXCEPT !.sib = Pad(<<"0", "g">>)]],
      [json |-> TRUE, de |-> [DeepDe EXCEPT !.key = Pad(<<>>) \o <<"0">>]],
      [json |-> TRUE, de |-> [GoodDe EXCEPT !.path_acc = <<"1", "2">>]],
      [json |-> TRUE, de |-> [DeepDe EXCEPT !.path = <<>>]],
      [json |-> TRUE, de |-> [GoodDe EXCEPT !.path = <<"x">>, !.new_root = <<"f">>]] }

\* trim().split('\n') yields at least one line
Texts == UNION { [1..n -> LinePool] : n \in 1..MaxLen }

\* either a text is decoded and its rows verified (as tests::test_parse does),
\* or a caller hands a row sequence to verify directly
Init ==
    /\ des = <<>>
    /\ conv = <<>>
    /\ err = NoErr
    /\ idx = 0
    /\ verified = TRUE
    /\ log = <<>>
    /\ ret = "pending"
    /\ \/ lines \in Texts /\ rows = <<>> /\ dstatus = "running" /\ pc = "from_lines"
       \/ lines = <<>> /\ IsTrace(rows) /\ dstatus = "skipped" /\ pc = "verify"

Next ==
    \/ FromLinesStep
    \/ TryFromStep
    \/ VerifyEnter
    \/ Part1Step
    \/ Part2_1Step
    \/ Part2_2Step
    \/ Part3Step
    \/ Part4Step
    \/ Part4Overflow
    \/ VerifyReturn

Spec == Init /\ [][Next]_vars

(***************************************************************************)
(* The checks as the specification words them, on the 1-based rows of the  *)
(* trace; the predecessor-based ones apply from the second row on          *)
(***************************************************************************)
N == Len(rows)
LogSet == {log[j] : j \in 1..Len(log)}
Returned == pc = "done"
Accepted == ret = "true"
Rejected == ret = "false"

NonFirst == {i \in 2..N : ~rows[i].is_first}
EndsOp(i) == i = N \/ rows[i + 1].is_first

ChainPairs ==
    { <<"Middle", "Middle">>, <<"Middle", "Empty">>, <<"Middle", "Leaf">>,
      <<"Middle", "LeafExt">>, <<"Middle", "LeafExtFinal">>,
      <<"LeafExt", "LeafExt">>, <<"LeafExt", "LeafExtFinal">>,
      <<"LeafExtFinal", "Empty">>, <<"LeafExtFinal", "Leaf">> }

RowPairs ==
    { <<"Empty", "Leaf">>, <<"Leaf", "Empty">>, <<"Leaf", "Leaf">>,
      <<"Middle", "LeafExtFinal">>, <<"LeafExtFinal", "Middle">>,
      <<"Middle", "LeafExt">>, <<"LeafExt", "Middle">>, <<"Middle", "Middle">> }

\* the key read as an unsigned integer, byte 0 least significant
KeyInt(k) ==
    LET v[n \in 0..Len(k)] == IF n = 0 THEN 0 ELSE k[n] * 256 ^ (n - 1) + v[n - 1]
    IN  v[Len(k)]

ShapeBad(type, hash, value, sib) ==
    \/ type = "Empty" /\ hash # HashZero
    \/ type = "LeafExt" /\ value # hash
    \/ type = "LeafExtFinal" /\ sib # hash

OldShapeBad(i) ==
    ShapeBad(rows[i].old_hash_type, rows[i].old_hash, rows[i].old_value, rows[i].sib)
NewShapeBad(i) ==
    ShapeBad(rows[i].new_hash_type, rows[i].new_hash, rows[i].new_value, rows[i].sib)

ChainOldBad(i) == rows[i - 1].old_value # rows[i].old_hash
ChainNewBad(i) == rows[i - 1].new_value # rows[i].new_hash
TypeChainOldBad(i) == <<rows[i - 1].old_hash_type, rows[i].old_hash_type>> \notin ChainPairs
TypeChainNewBad(i) == <<rows[i - 1].new_hash_type, rows[i].new_hash_type>> \notin ChainPairs
RowPairBad(i) == <<rows[i].old_hash_type, rows[i].new_hash_type>> \notin RowPairs
Inner == {"Middle", "LeafExt", "LeafExtFinal"}
PathBad(i) == rows[i].path \notin {0, 1}
DepthBad(i) ==
    IF rows[i].is_first THEN rows[i].depth # 0
    ELSE i > 1 /\ rows[i].depth # rows[i - 1].depth + 1
KeyBad(i) == EndsOp(i) /\ rows[i].path_acc # KeyInt(rows[i].key)

Failing(S, part, check) == {Diag(part, i - 1, check) : i \in S}

Pass1Failing ==
    Failing({i \in NonFirst : ChainOldBad(i)}, "part1", "adj_old")
    \cup Failing({i \in NonFirst : ChainNewBad(i)}, "part1", "adj_new")
Pass2Failing ==
    Failing({i \in NonFirst : TypeChainOldBad(i)}, "part2_1", "chain_old")
    \cup Failing({i \in NonFirst : TypeChainNewBad(i)}, "part2_1", "chain_new")
Pass3Failing ==
    Failing({i \in 1..N : RowPairBad(i)}, "part2_2", "transition")
Pass4Failing ==
    Failing({i \in 1..N : OldShapeBad(i)}, "part3", "shape_old")
    \cup Failing({i \in 1..N : NewShapeBad(i)}, "part3", "shape_new")
Pass5Failing ==
    Failing({i \in 1..N : rows[i].old_hash_type \in Inner /\ PathBad(i)},
            "part4", "path_old")
    \cup Failing({i \in 1..N : rows[i].new_hash_type \in Inner /\ PathBad(i)},
            "part4", "path_new")
    \cup Failing({i \in 1..N : rows[i].is_first /\ DepthBad(i)}, "part4", "depth_first")
    \cup Failing({i \in 1..N : ~rows[i].is_first /\ DepthBad(i)}, "part4", "depth")
    \cup Failing({i \in 1..N : KeyBad(i)}, "part4", "key")

FailingChecks ==
    Pass1Failing \cup Pass2Failing \cup Pass3Failing \cup Pass4Failing \cup Pass5Failing

(***************************************************************************)
(* C1. For every row sequence verify returns true exactly when no check of *)
(* the five passes fails on any row, and it emits one diagnostic per       *)
(* failing check: no call ends without a verdict, the verdict is the       *)
(* conjunction of all checks, and the log is the list of failing checks.   *)
(* Violated: a trace whose row 0 is not is_first aborts in part 1 (see     *)
(* C2), and a wrapped `depth + 1` hides a failing depth check.             *)
(***************************************************************************)
C1_VerdictIsConjunction ==
    pc \in {"done", "panic"} =>
        /\ ret = (IF FailingChecks = {} THEN "true" ELSE "false")
        /\ LogSet = FailingChecks
        /\ Len(log) = Cardinality(FailingChecks)

\* What does hold of every call that returns: the verdict is true exactly when
\* no diagnostic was emitted, and it never goes back from false to true.
VerdictOfReturnedCall == Returned => (Accepted <=> log = <<>>) /\ (Rejected <=> log # <<>>)
VerdictIsMonotone == [][verified = FALSE => verified' = FALSE]_vars
RunningVerdict ==
    pc \in {"part1", "part2_1", "part2_2", "part3", "part4", "return"} =>
        (verified <=> log = <<>>)

(***************************************************************************)
(* C2. verify has no fatal outcome: every call ends with a boolean verdict,*)
(* the empty sequence yields true, and no predecessor-based check is made  *)
(* on row 0.  Violated: row 0 with is_first = false makes part 1 evaluate  *)
(* self[idx - 1] at idx = 0, which aborts the call.                        *)
(***************************************************************************)
C2_NoFatalOutcome ==
    /\ ret # "panic"
    /\ pc # "panic"
    /\ (Returned /\ rows = <<>> => Accepted)

(***************************************************************************)
(* C3. Pass 1: a trace is accepted only if every row after the first that  *)
(* is not is_first has old_hash = previous old_value and new_hash =        *)
(* previous new_value; a returned call with such a mismatch returns false; *)
(* is_first rows are never reported by pass 1; and two rows that differ    *)
(* only in row0.new_value # row1.new_hash give false with exactly one      *)
(* diagnostic, from pass 1.                                                *)
(***************************************************************************)
C3_Chaining ==
    /\ Accepted => \A i \in NonFirst : ~ChainOldBad(i) /\ ~ChainNewBad(i)
    /\ Returned /\ (\E i \in NonFirst : ChainOldBad(i) \/ ChainNewBad(i)) => Rejected
    /\ \A e \in LogSet : e.part = "part1" => ~rows[e.idx + 1].is_first
    /\ ( /\ Returned
         /\ N = 2
         /\ NonFirst = {2}
         /\ ChainNewBad(2)
         /\ FailingChecks = {Diag("part1", 1, "adj_new")} )
       => Rejected /\ log = <<Diag("part1", 1, "adj_new")>>

C3_Witness ==
    /\ Returned /\ Rejected
    /\ N = 2 /\ rows[1].is_first /\ ~rows[2].is_first
    /\ rows[1].new_value # rows[2].new_hash
    /\ rows[1].old_value = rows[2].old_hash
    /\ log = <<Diag("part1", 1, "adj_new")>>

(***************************************************************************)
(* C4. Pass 2: a trace is accepted only if, for every row after the first  *)
(* that is not is_first, the old types and the new types of the previous   *)
(* row and of the row are both among the 9 chain pairs; a returned call    *)
(* with a pair outside them returns false; pass 2 never reports an         *)
(* is_first row, whatever its types.                                       *)
(***************************************************************************)
C4_ChainTable ==
    /\ Accepted => \A i \in NonFirst : ~TypeChainOldBad(i) /\ ~TypeChainNewBad(i)
    /\ Returned /\ (\E i \in NonFirst : TypeChainOldBad(i) \/ TypeChainNewBad(i))
          => Rejected
    /\ \A e \in LogSet : e.part = "part2_1" => ~rows[e.idx + 1].is_first
    /\ Cardinality(ChainPairs) = 9

C4_Witness ==
    /\ Returned /\ Rejected
    /\ N = 2 /\ rows[1].is_first /\ ~rows[2].is_first
    /\ rows[1].old_hash_type = "Leaf" /\ rows[2].old_hash_type = "Middle"
    /\ Diag("part2_1", 1, "chain_old") \in LogSet

(***************************************************************************)
(* C5. Pass 3: a trace is accepted only if every row, first or not, has    *)
(* (old type, new type) among the 8 row pairs; a returned call with a row  *)
(* whose pair is one of the other 17 returns false.                        *)
(***************************************************************************)
C5_RowTable ==
    /\ Accepted => \A i \in 1..N : ~RowPairBad(i)
    /\ Returned /\ (\E i \in 1..N : RowPairBad(i)) => Rejected
    /\ Returned => \A i \in 1..N :
          RowPairBad(i) <=> Diag("part2_2", i - 1, "transition") \in LogSet
    /\ Cardinality(RowPairs) = 8
    /\ Cardinality((HashType \X HashType) \ RowPairs) = 17

C5_Witness ==
    /\ Returned /\ Rejected
    /\ N = 1 /\ rows[1].is_first
    /\ rows[1].old_hash_type = "Empty" /\ rows[1].new_hash_type = "Empty"
    /\ log = <<Diag("part2_2", 0, "transition")>>

(***************************************************************************)
(* C6. Pass 4: a trace is accepted only if on each side of every row an    *)
(* Empty type has the zero hash, a LeafExt type has value = hash and a     *)
(* LeafExtFinal type has sib = hash; a returned call with such a violation *)
(* returns false; and pass 4 never reports a side whose type is Middle or  *)
(* Leaf.                                                                   *)
(***************************************************************************)
C6_HashShape ==
    /\ Accepted => \A i \in 1..N : ~OldShapeBad(i) /\ ~NewShapeBad(i)
    /\ Returned /\ (\E i \in 1..N : OldShapeBad(i) \/ NewShapeBad(i)) => Rejected
    /\ \A e \in LogSet :
          /\ e.check = "shape_old" => rows[e.idx + 1].old_hash_type \notin {"Middle", "Leaf"}
          /\ e.check = "shape_new" => rows[e.idx + 1].new_hash_type \notin {"Middle", "Leaf"}

C6_Witness ==
    /\ Returned /\ Rejected
    /\ N = 1
    /\ rows[1].old_hash_type = "LeafExtFinal"
    /\ rows[1].sib # rows[1].old_hash
    /\ rows[1].old_value = rows[1].old_hash
    /\ log = <<Diag("part3", 0, "shape_old")>>

\* the row that opens the operation row i belongs to
LatestFirst(i) ==
    CHOOSE j \in 1..i : rows[j].is_first /\ \A k \in (j + 1)..i : ~rows[k].is_first

(***************************************************************************)
(* C7. Pass 5, depth: a trace is accepted only if every is_first row has   *)
(* depth 0 and every other row has the previous row's depth plus 1, so     *)
(* that each row's depth is its distance from the latest is_first row; a   *)
(* returned call with a depth violation returns false; an is_first row at  *)
(* depth 0 followed by a non-first row at depth 2 is never accepted.       *)
(***************************************************************************)
C7_Depth ==
    /\ Accepted => \A i \in 1..N :
          /\ ~DepthBad(i)
          /\ rows[i].depth = i - LatestFirst(i)
    /\ Returned /\ (\E i \in 1..N : DepthBad(i)) => Rejected
    /\ ( /\ N >= 2 /\ rows[1].is_first /\ rows[1].depth = 0
         /\ ~rows[2].is_first /\ rows[2].depth = 2 ) => ~Accepted

C7_Witness ==
    /\ Returned /\ Rejected
    /\ N = 2 /\ rows[1].is_first /\ rows[1].depth = 0
    /\ ~rows[2].is_first /\ rows[2].depth = 2
    /\ log = <<Diag("part4", 1, "depth")>>

(***************************************************************************)
(* C8. Pass 5, key: a trace is accepted only if every row that ends an     *)
(* operation (the last row, or a row followed by an is_first row) has      *)
(* path_acc equal to its key read as a little-endian unsigned integer; a   *)
(* returned call with such a mismatch returns false; the key check is      *)
(* never reported for a row that does not end an operation.                *)
(***************************************************************************)
C8_KeyAtEnd ==
    /\ Accepted => \A i \in 1..N : ~KeyBad(i)
    /\ Returned /\ (\E i \in 1..N : KeyBad(i)) => Rejected
    /\ \A e \in LogSet : e.check = "key" => EndsOp(e.idx + 1)

\* accepted although the row that does not end the operation has
\* path_acc # key, and the ending row's key has unequal bytes
C8_Witness ==
    /\ Returned /\ Accepted
    /\ N = 2 /\ ~rows[2].is_first
    /\ rows[1].path_acc # KeyInt(rows[1].key)
    /\ rows[2].key[1] = 1 /\ rows[2].key[HashLen] = 0
    /\ rows[2].path_acc = 1

(***************************************************************************)
(* Decoding, as the specification words it                                 *)
(***************************************************************************)
ValidHex(s) ==
    /\ Len(s) = 2 * HashLen
    /\ \A i \in 1..Len(s) :
          s[i] \in {"0", "1", "2", "3", "4", "5", "6", "7", "8", "9", "a", "b", "c",
                    "d", "e", "f", "A", "B", "C", "D", "E", "F"}
ValidBinary(s) == Len(s) > 0 /\ \A i \in 1..Len(s) : s[i] \in {"0", "1"}
FieldsValid(de) ==
    /\ ValidBinary(de.path) /\ ValidBinary(de.path_acc)
    /\ \A f \in {"sib", "old_hash", "old_value", "new_hash", "new_value", "key",
                 "new_root"} : ValidHex(de[f])

SchemaBad == {i \in 1..Len(lines) : ~lines[i].json}
FieldBad == {i \in 1..Len(lines) : lines[i].json /\ ~FieldsValid(lines[i].de)}
Malformed == SchemaBad \cup FieldBad
Lowest(S) == CHOOSE i \in S : \A j \in S : i <= j

AllOrNothing ==
    /\ dstatus = "running" => pc \in {"from_lines", "try_from"} /\ rows = <<>>
    /\ dstatus = "ok" =>
          /\ Malformed = {}
          /\ Len(rows) = Len(lines)
          /\ \A i \in 1..Len(lines) :
                /\ rows[i].is_first = lines[i].de.is_first
                /\ rows[i].depth = lines[i].de.depth
                /\ rows[i].old_hash_type = lines[i].de.old_hash_type
                /\ rows[i].new_hash_type = lines[i].de.new_hash_type
                /\ rows[i].path_acc = BinValue(lines[i].de.path_acc,
                                               Len(lines[i].de.path_acc))
    /\ dstatus = "err" =>
          /\ Malformed # {}
          /\ rows = <<>> /\ conv = <<>>
          /\ pc = "decode_err" /\ ret = "pending"

(***************************************************************************)
(* C9 as claimed. Decoding returns either one row per line, in order, or   *)
(* an error and no rows, and the error is the one of the lowest-numbered   *)
(* malformed line, whatever makes the line malformed.                      *)
(***************************************************************************)
C9_LowestMalformedLine ==
    /\ AllOrNothing
    /\ dstatus = "err" => err.line = Lowest(Malformed)

(***************************************************************************)
(* C9 as amended. Decoding returns either one row per line, in order, or   *)
(* an error and no rows.  All lines are parsed as records before any       *)
(* field is converted: if some line violates the schema the error is the   *)
(* one of the lowest-numbered such line, even when an earlier line has a   *)
(* bad hex or binary field; otherwise it is the error of the first bad     *)
(* field of the lowest-numbered line with a bad hex or binary field.       *)
(***************************************************************************)
C9_TwoStageDecode ==
    /\ AllOrNothing
    /\ dstatus = "err" =>
          IF SchemaBad # {}
          THEN err.kind = "Json" /\ err.line = Lowest(SchemaBad)
          ELSE err.kind \in {"Hex", "BigInt"} /\ err.line = Lowest(FieldBad)

C9_Witness ==
    /\ dstatus = "err"
    /\ Len(lines) = 2
    /\ 1 \in FieldBad /\ 2 \in SchemaBad
    /\ err.kind = "Json" /\ err.line = 2

(***************************************************************************)
(* C10. In every accepted trace a row whose old or new type is Empty or    *)
(* Leaf ends its operation: it is the last row, or the next row is         *)
(* is_first.                                                               *)
(***************************************************************************)
C10_LeafEndsOperation ==
    Accepted => \A i \in 1..N :
        (rows[i].old_hash_type \in {"Empty", "Leaf"}
           \/ rows[i].new_hash_type \in {"Empty", "Leaf"}) => EndsOp(i)

C10_Witness ==
    /\ Returned /\ Accepted
    /\ N = 2 /\ ~rows[2].is_first
    /\ rows[1].old_hash_type = "Middle" /\ rows[1].new_hash_type = "Middle"
    /\ rows[2].old_hash_type = "Empty" /\ rows[2].new_hash_type = "Leaf"

====
